---- MODULE Spec2Model ----
(***************************************************************************)
(* Model of in-context-learning.ipynb: a notebook that discovers the       *)
(* papers featured on a listing page (cell 5), downloads each paper's PDF  *)
(* and extracts its text (extract_pdf, cell 6), asks a hosted model for a  *)
(* summary (cell 10), and renders the list to papers.html (cell 12) and as *)
(* displayed markdown (cell 14).                                           *)
(*                                                                         *)
(* Python strings are TLA+ strings: \o is +, Len is len, SubSeq is a       *)
(* slice.  A paper is a dict: a function whose DOMAIN is its set of keys.  *)
(***************************************************************************)
EXTENDS Integers, Sequences, FiniteSets, TLC

(***************************************************************************)
(* Bounds of the model.                                                    *)
(***************************************************************************)
MaxPapers == 2      \* headings on the listing page
MaxPages == 3       \* pages of one PDF
MaxSinkRuns == 2    \* executions of the rendering cells after the loop

(***************************************************************************)
(* String literals of the notebook.                                        *)
(***************************************************************************)
PAPERS_SEGMENT == "/papers"
ARXIV_PDF == "https://arxiv.org/pdf"
INSTRUCTION == "Summarize this research article into one paragraph without formatting highlighting its strengths and weaknesses. "
PLACEHOLDER == "Paper not available"
LLM == "gemini-1.5-flash"
HTML_END == "</head>  </html>"

(***************************************************************************)
(* Inputs from the environment.                                            *)
(***************************************************************************)
\* An h3 heading of the listing page: the text and href of its first anchor,
\* or no anchor at all.
NoAnchor == [anchor |-> FALSE, text |-> "", href |-> ""]
Anchor(t, h) == [anchor |-> TRUE, text |-> t, href |-> h]
\* The href of a well-formed anchor: "/papers" followed by a path suffix.
Href(suffix) == PAPERS_SEGMENT \o suffix
Suffixes ==
    { "", "/1234", "/2410.24024", "/papers", "/papers/56", "/56/papers",
      "/papersX", "/pap/papers/ers" }
WellFormed == { Anchor(t, Href(x)) : t \in {"Foo", "Bar"}, x \in Suffixes }
\* Any listing page, and the headings of the pages of the whole pipeline.
AnyHeadings == WellFormed \cup {NoAnchor}
Headings ==
    { Anchor("Foo", Href("/1234")), Anchor("Bar", Href("/papers/56")), NoAnchor }

SeqsUpTo(S, n) == UNION { [1..k -> S] : k \in 0..n }

\* The text pypdf extracts from one page.
PageTexts == {"", "Hello", "World"}
\* What a download can leave in pdf_file.pdf: a PDF with 0..MaxPages pages,
\* or bytes that are no PDF.
PdfDocs == SeqsUpTo(PageTexts, MaxPages)
NotAPdf == [valid |-> FALSE, pages |-> <<>>]
Pdf(doc) == [valid |-> TRUE, pages |-> doc]
\* Any server, and the server of the whole pipeline.
AnyDownloads == { Pdf(d) : d \in PdfDocs } \cup {NotAPdf}
Downloads == { Pdf(<<"Hello", "World">>), Pdf(<<"World">>), NotAPdf }

\* What the model service returns: a response whose .text is readable, or a
\* response without text (reading .text raises).
Texts == {"A good paper.", PLACEHOLDER}
NoText == [has_text |-> FALSE, text |-> ""]
Response(t) == [has_text |-> TRUE, text |-> t]
Responses == { Response(t) : t \in Texts } \cup {NoText}

NoResponse == [has_text |-> FALSE, text |-> "<no call>"]

\* Files on disk.
NoFile == [exists |-> FALSE, url |-> "", valid |-> FALSE, pages |-> <<>>]
PdfFile(u, d) == [exists |-> TRUE, url |-> u, valid |-> d.valid, pages |-> d.pages]
LeftoverPdf == PdfFile("earlier run", Pdf(<<"Old">>))

\* papers.html before the run: absent, or left by an earlier run.
NoHtml == [exists |-> FALSE, data |-> ""]
StaleHtml == [exists |-> TRUE, data |-> "<html> stale </html>"]

\* str(date.today()) when cell 12 runs.
Dates == {"2024-11-05", "2024-11-06"}

VARIABLES
    h3s,        \* the listing page: soup.find_all("h3")
    web,        \* what the PDF server may send for a url
    pc,         \* the statement the kernel is about to execute
    idx,        \* position of the running for loop in its list (1-based)
    papers,     \* the papers list
    pdf_file,   \* the file pdf_file.pdf
    pages,      \* extract_pdf: reader.pages
    pg,         \* extract_pdf: position of the page loop
    text,       \* extract_pdf: text
    prompt,     \* the string handed to model.generate_content
    response,   \* what model.generate_content returned
    nDownload,  \* per paper: urlretrieve calls made
    nGenerate,  \* per paper: generate_content calls made
    nWrite,     \* per paper: assignments to paper["summary"]
    raised,     \* per paper: the call of the try block that raised, if any
    html_file,  \* the file papers.html
    today,      \* cell 12: the date.today() formatted into the header
    displayed,  \* cell 14: the output area, one entry per printmd call
    done        \* the rendering cells executed so far, with what each left

vars == <<h3s, web, pc, idx, papers, pdf_file, pages, pg, text, prompt,
          response, nDownload, nGenerate, nWrite, raised, html_file, today,
          displayed, done>>

env == <<h3s, web>>
locals == <<pages, pg, text, prompt, response>>
counters == <<nDownload, nGenerate, nWrite, raised>>
\* The state of the discovery and summarization cells.
pipeline == <<env, papers, pdf_file, locals, counters>>
\* The state of the rendering cells.
sinks == <<html_file, today, displayed, done>>

(***************************************************************************)
(* str.replace(old, new): every non-overlapping occurrence, left to right. *)
(***************************************************************************)
RECURSIVE Replace(_, _, _)
Replace(s, old, new) ==
    IF Len(s) < Len(old) THEN s
    ELSE IF SubSeq(s, 1, Len(old)) = old
         THEN new \o Replace(SubSeq(s, Len(old) + 1, Len(s)), old, new)
         ELSE SubSeq(s, 1, 1) \o Replace(SubSeq(s, 2, Len(s)), old, new)

\* Cell 5, loop body: the dict appended for one heading.
PaperOf(h3) ==
    [title |-> h3.text,
     url |-> ARXIV_PDF \o Replace(h3.href, PAPERS_SEGMENT, "")]

\* A variant that stores the summary under a misspelt key.
SetSummaryMisspelt(paper, s) == ("sumary" :> s) @@ paper

\* paper["summary"] = s
SetSummary(paper, s) == ("summary" :> s) @@ paper

HasSummary(paper) == "summary" \in DOMAIN paper

Bump(f, i) == [f EXCEPT ![i] = @ + 1]

\* The notebook before cell 5 runs, for a listing page and a PDF server.
Start(listing, server) ==
    /\ h3s = listing
    /\ web = server
    /\ pc = "discover"
    /\ idx = 1
    /\ papers = <<>>
    /\ pdf_file \in {NoFile, LeftoverPdf}
    /\ pages = <<>>
    /\ pg = 0
    /\ text = ""
    /\ prompt = ""
    /\ response = NoResponse
    /\ nDownload = <<>>
    /\ nGenerate = <<>>
    /\ nWrite = <<>>
    /\ raised = <<>>
    /\ html_file \in {NoHtml, StaleHtml}
    /\ today = ""
    /\ displayed = <<>>
    /\ done = <<>>

Init == \E listing \in SeqsUpTo(Headings, MaxPapers) : Start(listing, Downloads)

(***************************************************************************)
(* Cell 5: discovery.                                                      *)
(***************************************************************************)
DiscoverStep ==
    /\ pc = "discover"
    /\ idx <= Len(h3s)
    /\ h3s[idx].anchor
    /\ papers' = Append(papers, PaperOf(h3s[idx]))
    /\ nDownload' = Append(nDownload, 0)
    /\ nGenerate' = Append(nGenerate, 0)
    /\ nWrite' = Append(nWrite, 0)
    /\ raised' = Append(raised, "")
    /\ idx' = idx + 1
    /\ UNCHANGED <<env, pc, pdf_file, locals, sinks>>

\* h3.find("a") is None: a.text raises, the cell aborts.
DiscoverRaise ==
    /\ pc = "discover"
    /\ idx <= Len(h3s)
    /\ ~h3s[idx].anchor
    /\ pc' = "aborted"
    /\ UNCHANGED <<env, idx, papers, pdf_file, locals, counters, sinks>>

DiscoverDone ==
    /\ pc = "discover"
    /\ idx > Len(h3s)
    /\ pc' = "for"
    /\ idx' = 1
    /\ UNCHANGED <<env, papers, pdf_file, locals, counters, sinks>>

(***************************************************************************)
(* Cell 10: the summarization loop, with extract_pdf (cell 6) inlined at   *)
(* its one call site.                                                      *)
(***************************************************************************)
\* for paper in tqdm(papers): the next paper, entering the try block.
ForNext ==
    /\ pc = "for"
    /\ idx <= Len(papers)
    /\ pc' = "urlretrieve"
    /\ pages' = <<>>
    /\ pg' = 0
    /\ text' = ""
    /\ prompt' = ""
    /\ response' = NoResponse
    /\ UNCHANGED <<env, idx, papers, pdf_file, counters, sinks>>

ForEnd ==
    /\ pc = "for"
    /\ idx > Len(papers)
    /\ pc' = "summarized"
    /\ pages' = <<>>
    /\ pg' = 0
    /\ text' = ""
    /\ prompt' = ""
    /\ response' = NoResponse
    /\ UNCHANGED <<env, idx, papers, pdf_file, counters, sinks>>

\* urlretrieve(url, "pdf_file.pdf") returns: the file now holds what the
\* server sent for this paper's url.
UrlretrieveOk ==
    /\ pc = "urlretrieve"
    /\ \E d \in web : pdf_file' = PdfFile(papers[idx].url, d)
    /\ nDownload' = Bump(nDownload, idx)
    /\ pc' = "PdfReader"
    /\ UNCHANGED <<env, idx, papers, locals, nGenerate, nWrite, raised, sinks>>

\* A variant of extract_pdf that swallows the download error and goes on to
\* read whatever pdf_file.pdf holds.
UrlretrieveRaiseSwallowed ==
    /\ pc = "urlretrieve"
    /\ \/ pdf_file' = pdf_file
       \/ \E d \in web \cup {NotAPdf} :
              pdf_file' = PdfFile(papers[idx].url, d)
    /\ nDownload' = Bump(nDownload, idx)
    /\ pc' = "PdfReader"
    /\ UNCHANGED <<env, idx, papers, locals, nGenerate, nWrite, raised, sinks>>

\* urlretrieve raises: before the file is opened (HTTP error, no network),
\* which leaves the file as it was; or after the file was opened for
\* writing, with the bytes received so far in it: a truncated body that is
\* no PDF, or the whole body when the server announced a Content-Length
\* larger than what it sent (ContentTooShortError after the last write).
UrlretrieveRaise ==
    /\ pc = "urlretrieve"
    /\ \/ pdf_file' = pdf_file
       \/ \E d \in web \cup {NotAPdf} :
              pdf_file' = PdfFile(papers[idx].url, d)
    /\ nDownload' = Bump(nDownload, idx)
    /\ raised' = [raised EXCEPT ![idx] = "extract_pdf"]
    /\ pc' = "except"
    /\ UNCHANGED <<env, idx, papers, locals, nGenerate, nWrite, sinks>>

\* reader = PdfReader("pdf_file.pdf"); text = ""
PdfReaderOk ==
    /\ pc = "PdfReader"
    /\ pdf_file.valid
    /\ pages' = pdf_file.pages
    /\ pg' = 1
    /\ text' = ""
    /\ pc' = "pages"
    /\ UNCHANGED <<env, idx, papers, pdf_file, prompt, response, counters,
                   sinks>>

\* PdfReader raises on a file that is no PDF.
PdfReaderRaise ==
    /\ pc = "PdfReader"
    /\ ~pdf_file.valid
    /\ raised' = [raised EXCEPT ![idx] = "extract_pdf"]
    /\ pc' = "except"
    /\ UNCHANGED <<env, idx, papers, pdf_file, locals, nDownload, nGenerate,
                   nWrite, sinks>>

\* A variant that joins the pages with "\n" instead of ending each with one.
PageTextJoined(t, p) == IF t = "" THEN p ELSE t \o "\n" \o p

\* text += page.extract_text() + "\n"
PageText(t, p) == t \o p \o "\n"

PageStep ==
    /\ pc = "pages"
    /\ pg <= Len(pages)
    /\ text' = PageText(text, pages[pg])
    /\ pg' = pg + 1
    /\ UNCHANGED <<env, pc, idx, papers, pdf_file, pages, prompt, response,
                   counters, sinks>>

\* A variant that cuts the text to fit a prompt budget.
PromptOfTruncated(t) == INSTRUCTION \o SubSeq(t, 1, 5)

\* page.extract_text() raises on a page pypdf cannot decode.
PageRaise ==
    /\ pc = "pages"
    /\ pg <= Len(pages)
    /\ raised' = [raised EXCEPT ![idx] = "extract_pdf"]
    /\ pc' = "except"
    /\ UNCHANGED <<env, idx, papers, pdf_file, locals, nDownload, nGenerate,
                   nWrite, sinks>>

\* The argument of generate_content: the instruction + extract_pdf's result.
PromptOf(t) == INSTRUCTION \o t

\* return text; the prompt is built and the call to the model is made.
ExtractReturn ==
    /\ pc = "pages"
    /\ pg > Len(pages)
    /\ prompt' = PromptOf(text)
    /\ pc' = "generate_content"
    /\ UNCHANGED <<env, idx, papers, pdf_file, pages, pg, text, response,
                   counters, sinks>>

\* model.generate_content(prompt) returns a response.
GenerateOk ==
    /\ pc = "generate_content"
    /\ response' \in Responses
    /\ nGenerate' = Bump(nGenerate, idx)
    /\ pc' = "assign"
    /\ UNCHANGED <<env, idx, papers, pdf_file, pages, pg, text, prompt,
                   nDownload, nWrite, raised, sinks>>

\* model.generate_content(prompt) raises.
GenerateRaise ==
    /\ pc = "generate_content"
    /\ nGenerate' = Bump(nGenerate, idx)
    /\ raised' = [raised EXCEPT ![idx] = "generate_content"]
    /\ pc' = "except"
    /\ UNCHANGED <<env, idx, papers, pdf_file, locals, nDownload, nWrite,
                   sinks>>

\* The value stored on success: the response's .text.
SummaryOf(r) == r.text

\* A variant whose try block raises after the assignment.
AssignThenRaise ==
    /\ pc = "assign"
    /\ response.has_text
    /\ papers' = [papers EXCEPT ![idx] = SetSummary(@, SummaryOf(response))]
    /\ nWrite' = Bump(nWrite, idx)
    /\ raised' = [raised EXCEPT ![idx] = "generate_content"]
    /\ pc' = "except"
    /\ UNCHANGED <<env, idx, pdf_file, locals, nDownload, nGenerate, sinks>>

\* paper["summary"] = <response>.text
Assign ==
    /\ pc = "assign"
    /\ response.has_text
    /\ papers' = [papers EXCEPT ![idx] = SetSummary(@, SummaryOf(response))]
    /\ nWrite' = Bump(nWrite, idx)
    /\ idx' = idx + 1
    /\ pc' = "for"
    /\ UNCHANGED <<env, pdf_file, locals, nDownload, nGenerate, raised, sinks>>

\* Reading .text of a response that carries none raises: nothing was
\* assigned.
TextRaise ==
    /\ pc = "assign"
    /\ ~response.has_text
    /\ raised' = [raised EXCEPT ![idx] = "generate_content"]
    /\ pc' = "except"
    /\ UNCHANGED <<env, idx, papers, pdf_file, locals, nDownload, nGenerate,
                   nWrite, sinks>>

\* Variants of the handler that name one kind of exception.
CaughtExtractionOnly(origin) == origin = "extract_pdf"
CaughtGenerationOnly(origin) == origin = "generate_content"

\* The exceptions the handler of cell 10 catches: a bare except catches
\* whatever the try block raised, in extract_pdf or in the model call.
Caught(origin) == origin \in {"extract_pdf", "generate_content"}

\* A variant of the handler that swallows the exception and assigns nothing.
ExceptPass ==
    /\ pc = "except"
    /\ idx' = idx + 1
    /\ pc' = "for"
    /\ UNCHANGED <<env, papers, pdf_file, locals, counters, sinks>>

\* A variant of the handler that tries the same paper again.
ExceptRetry ==
    /\ pc = "except"
    /\ pc' = "urlretrieve"
    /\ UNCHANGED <<env, idx, papers, pdf_file, locals, counters, sinks>>

\* except: print("Generation failed"); paper["summary"] = "Paper not available"
\* (the line printed goes to the cell's output and is read by nothing).
\* An exception the handler does not catch leaves the cell.
Except ==
    /\ pc = "except"
    /\ IF Caught(raised[idx])
       THEN /\ papers' = [papers EXCEPT ![idx] = SetSummary(@, PLACEHOLDER)]
            /\ nWrite' = Bump(nWrite, idx)
            /\ idx' = idx + 1
            /\ pc' = "for"
       ELSE /\ pc' = "aborted"
            /\ UNCHANGED <<papers, nWrite, idx>>
    /\ UNCHANGED <<env, pdf_file, locals, nDownload, nGenerate, raised, sinks>>

(***************************************************************************)
(* Cell 12: the HTML sink.                                                 *)
(***************************************************************************)
\* open(name, mode): "w" creates or truncates, "a" creates or keeps.
Open(mode, file) ==
    IF mode = "w" THEN [exists |-> TRUE, data |-> ""]
    ELSE [exists |-> TRUE, data |-> file.data]

\* f.write(s), then the with block closes the file.
Write(file, s) == [file EXCEPT !.data = @ \o s]

\* A variant that opens the file for appending before the header too.
HeaderModeAppend == "a"

\* The modes of the three with blocks of cell 12.
HeaderMode == "w"
PaperMode == "a"
EndMode == "a"

\* page = f"<html> <head> ... {date.today()} ... {LLM}</i>"
Header(d) ==
    "<html> <head> <h1>Daily Dose of AI Research</h1> <h4>" \o d
        \o "</h4> <p><i>Summaries generated with: " \o LLM \o "</i>"

\* A variant with the link's target and text exchanged.
HtmlBlockSwapped(paper) ==
    "<h2><a href=\"" \o paper.title \o "\">" \o paper.url
        \o "</a></h2> <p>" \o paper.summary \o "</p>"

\* page = f'<h2><a href="{paper["url"]}">{paper["title"]}</a></h2> <p>{paper["summary"]}</p>'
HtmlBlock(paper) ==
    "<h2><a href=\"" \o paper.url \o "\">" \o paper.title
        \o "</a></h2> <p>" \o paper.summary \o "</p>"

\* A rendering cell is run once the loop is over; the kernel runs one cell
\* at a time.
SinkRecord(name, file, shown) ==
    [sink |-> name, date |-> today, html |-> file, md |-> shown]

HtmlPage ==
    /\ pc = "summarized"
    /\ Len(done) < MaxSinkRuns
    /\ today' \in Dates
    /\ pc' = "html_open"
    /\ UNCHANGED pipeline
    /\ UNCHANGED <<idx, html_file, displayed, done>>

HtmlOpen ==
    /\ pc = "html_open"
    /\ html_file' = Open(HeaderMode, html_file)
    /\ pc' = "html_write"
    /\ UNCHANGED pipeline
    /\ UNCHANGED <<idx, today, displayed, done>>

HtmlWrite ==
    /\ pc = "html_write"
    /\ html_file' = Write(html_file, Header(today))
    /\ pc' = "html_papers"
    /\ idx' = 1
    /\ UNCHANGED pipeline
    /\ UNCHANGED <<today, displayed, done>>

HtmlPaper ==
    /\ pc = "html_papers"
    /\ idx <= Len(papers)
    /\ html_file' = Write(Open(PaperMode, html_file), HtmlBlock(papers[idx]))
    /\ idx' = idx + 1
    /\ UNCHANGED pipeline
    /\ UNCHANGED <<pc, today, displayed, done>>

HtmlEnd ==
    /\ pc = "html_papers"
    /\ idx > Len(papers)
    /\ html_file' = Write(Open(EndMode, html_file), HTML_END)
    /\ done' = Append(done, SinkRecord("html", html_file', displayed))
    /\ pc' = "summarized"
    /\ UNCHANGED pipeline
    /\ UNCHANGED <<idx, today, displayed>>

(***************************************************************************)
(* Cell 14: the markdown sink.                                             *)
(***************************************************************************)
\* A variant with the format arguments in another order.
MarkdownOfSwapped(paper) ==
    "**[" \o paper.url \o "](" \o paper.title \o ")**<br>"
        \o paper.summary \o "<br><br>"

\* "**[{}]({})**<br>{}<br><br>".format(title, url, summary)
MarkdownOf(paper) ==
    "**[" \o paper.title \o "](" \o paper.url \o ")**<br>"
        \o paper.summary \o "<br><br>"

\* Executing the cell clears its output area.
MdStart ==
    /\ pc = "summarized"
    /\ Len(done) < MaxSinkRuns
    /\ displayed' = <<>>
    /\ pc' = "md_papers"
    /\ idx' = 1
    /\ UNCHANGED pipeline
    /\ UNCHANGED <<html_file, today, done>>

\* printmd(...): display(Markdown(string))
MdPaper ==
    /\ pc = "md_papers"
    /\ idx <= Len(papers)
    /\ displayed' = Append(displayed, MarkdownOf(papers[idx]))
    /\ idx' = idx + 1
    /\ UNCHANGED pipeline
    /\ UNCHANGED <<pc, html_file, today, done>>

MdEnd ==
    /\ pc = "md_papers"
    /\ idx > Len(papers)
    /\ done' = Append(done, SinkRecord("md", html_file, displayed))
    /\ pc' = "summarized"
    /\ UNCHANGED pipeline
    /\ UNCHANGED <<idx, html_file, today, displayed>>

Next ==
    \/ DiscoverStep
    \/ DiscoverRaise
    \/ DiscoverDone
    \/ ForNext
    \/ ForEnd
    \/ UrlretrieveOk
    \/ UrlretrieveRaise
    \/ PdfReaderOk
    \/ PdfReaderRaise
    \/ PageStep
    \/ PageRaise
    \/ ExtractReturn
    \/ GenerateOk
    \/ GenerateRaise
    \/ Assign
    \/ TextRaise
    \/ Except
    \/ HtmlPage
    \/ HtmlOpen
    \/ HtmlWrite
    \/ HtmlPaper
    \/ HtmlEnd
    \/ MdStart
    \/ MdPaper
    \/ MdEnd

Spec == Init /\ [][Next]_vars

(***************************************************************************)
(* The kernel runs the cell it was given to its end, and every blocking    *)
(* call of cell 10 returns or raises: a step of the summarization loop     *)
(* that can be taken is taken.                                             *)
(***************************************************************************)
Cell10 ==
    \/ ForNext
    \/ ForEnd
    \/ UrlretrieveOk
    \/ UrlretrieveRaise
    \/ PdfReaderOk
    \/ PdfReaderRaise
    \/ PageStep
    \/ PageRaise
    \/ ExtractReturn
    \/ GenerateOk
    \/ GenerateRaise
    \/ Assign
    \/ TextRaise
    \/ Except

SpecFair == Spec /\ WF_vars(Cell10)

(***************************************************************************)
(* Discovery alone, over any listing page.                                 *)
(***************************************************************************)
InitDiscover ==
    \E listing \in SeqsUpTo(AnyHeadings, MaxPapers) : Start(listing, Downloads)

NextDiscover ==
    \/ DiscoverStep
    \/ DiscoverRaise
    \/ DiscoverDone

SpecDiscover == InitDiscover /\ [][NextDiscover]_vars

(***************************************************************************)
(* extract_pdf alone, for the one paper of a listing, over any server.     *)
(***************************************************************************)
InitExtract ==
    /\ h3s = <<Anchor("Foo", Href("/1234"))>>
    /\ web = AnyDownloads
    /\ pc = "urlretrieve"
    /\ idx = 1
    /\ papers = <<PaperOf(h3s[1])>>
    /\ pdf_file \in {NoFile, LeftoverPdf}
    /\ pages = <<>>
    /\ pg = 0
    /\ text = ""
    /\ prompt = ""
    /\ response = NoResponse
    /\ nDownload = <<0>>
    /\ nGenerate = <<0>>
    /\ nWrite = <<0>>
    /\ raised = <<"">>
    /\ html_file \in {NoHtml, StaleHtml}
    /\ today = ""
    /\ displayed = <<>>
    /\ done = <<>>

NextExtract ==
    \/ UrlretrieveOk
    \/ UrlretrieveRaise
    \/ PdfReaderOk
    \/ PdfReaderRaise
    \/ PageStep
    \/ PageRaise
    \/ ExtractReturn

SpecExtract == InitExtract /\ [][NextExtract]_vars

(***************************************************************************)
(* Properties.                                                             *)
(***************************************************************************)
InLoop ==
    pc \in {"for", "urlretrieve", "PdfReader", "pages", "generate_content",
            "assign", "except"}
PostLoop ==
    pc \in {"summarized", "html_open", "html_write", "html_papers",
            "md_papers"}
\* The try statement of paper i has been left.
Handled(i) == (InLoop /\ i < idx) \/ PostLoop
Papers == 1..Len(papers)

\* C1: a paper whose generation call raised ends with the summary "Paper not
\* available"; the failure does not abort the loop; once the loop is over,
\* every paper after a failing one was downloaded, got its generation call
\* unless its own extraction failed, and has a summary.
C1_GenerationFailureIsolated ==
    /\ \A i \in Papers :
          raised[i] = "generate_content" /\ Handled(i)
              => HasSummary(papers[i]) /\ papers[i].summary = PLACEHOLDER
    /\ (\E i \in Papers : raised[i] = "generate_content") => pc # "aborted"
    /\ PostLoop =>
          \A i \in Papers, j \in Papers :
              raised[i] = "generate_content" /\ i < j
                  => /\ nDownload[j] = 1
                     /\ raised[j] # "extract_pdf" => nGenerate[j] = 1
                     /\ HasSummary(papers[j])

C1_Witness ==
    /\ pc = "summarized"
    /\ \E i \in Papers, j \in Papers :
          /\ i < j
          /\ raised[i] = "generate_content"
          /\ papers[i].summary = PLACEHOLDER
          /\ raised[j] = ""
          /\ nGenerate[j] = 1
          /\ papers[j].summary = "A good paper."

\* C2, as claimed: an error of extract_pdf is not caught; it leaves the loop
\* and the paper gets no placeholder summary.
C2_ExtractionErrorPropagates ==
    \A i \in Papers :
        raised[i] = "extract_pdf"
            => ~HasSummary(papers[i]) /\ pc \in {"except", "aborted"}

\* C2, amended: an error of extract_pdf (download failure, malformed PDF) is
\* caught by the same handler as a generation error: the paper's summary
\* becomes "Paper not available" and the loop goes on to the next paper.
C2_ExtractionErrorCaught ==
    \A i \in Papers :
        raised[i] = "extract_pdf"
            => /\ pc # "aborted"
               /\ Handled(i)
                    => HasSummary(papers[i]) /\ papers[i].summary = PLACEHOLDER
               /\ PostLoop => \A j \in Papers : i < j => nDownload[j] = 1

C2_Witness ==
    /\ pc = "summarized"
    /\ \E i \in Papers, j \in Papers :
          /\ i < j
          /\ raised[i] = "extract_pdf"
          /\ papers[i].summary = PLACEHOLDER
          /\ nDownload[j] = 1
          /\ HasSummary(papers[j])

\* The path suffix of a well-formed href: what follows its leading "/papers".
SuffixOf(href) == SubSeq(href, Len("/papers") + 1, Len(href))

\* C3, as claimed: for a page whose N headings each hold an anchor with href
\* "/papers" + s, discovery yields N papers in document order, the i-th with
\* the i-th anchor's text as title and "https://arxiv.org/pdf" + s as url,
\* for every suffix s.
C3_DiscoveryKeepsSuffix ==
    pc = "for" /\ (\A i \in 1..Len(h3s) : h3s[i].anchor)
        => /\ Len(papers) = Len(h3s)
           /\ \A i \in 1..Len(h3s) :
                 /\ papers[i].title = h3s[i].text
                 /\ papers[i].url
                        = "https://arxiv.org/pdf" \o SuffixOf(h3s[i].href)

\* The number of characters of the result that precede page i's text.
RECURSIVE Offset(_, _)
Offset(doc, i) ==
    IF i = 1 THEN 0 ELSE Offset(doc, i - 1) + Len(doc[i - 1]) + 1

\* C4: for a PDF of P pages extract_pdf returns the page texts in page
\* order, each followed by one "\n": P added separators, "" when P = 0.
C4_ExtractPdf ==
    pc = "generate_content" =>
        LET doc == pdf_file.pages
            P == Len(doc)
        IN  /\ Len(text) = Offset(doc, P + 1)
            /\ \A i \in 1..P :
                  LET from == Offset(doc, i)
                      to == from + Len(doc[i])
                  IN  /\ SubSeq(text, from + 1, to) = doc[i]
                      /\ SubSeq(text, to + 1, to + 1) = "\n"
            /\ P = 0 => text = ""

C4_Witness ==
    /\ pc = "generate_content"
    /\ pdf_file.pages = <<"Hello", "World">>
    /\ text = "Hello\nWorld\n"

\* The per-paper block the HTML output is to hold for a paper.
BlockFor(paper) ==
    "<h2><a href=\"" \o paper.url \o "\">" \o paper.title \o "</a></h2> <p>"
        \o paper.summary \o "</p>"

\* The blocks of a list of papers, in the list's order.
RECURSIVE BlocksFor(_)
BlocksFor(ps) ==
    IF ps = <<>> THEN "" ELSE BlockFor(Head(ps)) \o BlocksFor(Tail(ps))

\* The number of places of s where sub occurs.
Occurrences(s, sub) ==
    Cardinality({ i \in 1..(Len(s) - Len(sub) + 1) :
                    SubSeq(s, i, i + Len(sub) - 1) = sub })

IsPrefix(a, b) == Len(a) <= Len(b) /\ SubSeq(b, 1, Len(a)) = a
IsSuffix(a, b) == Len(a) <= Len(b) /\ SubSeq(b, Len(b) - Len(a) + 1, Len(b)) = a

\* The HTML sink has just finished.
HtmlJustDone ==
    pc = "summarized" /\ done # <<>> /\ done[Len(done)].sink = "html"

\* C5: for a list of k papers with title, url and summary, what the HTML
\* sink wrote holds exactly k blocks <h2><a href="URL">TITLE</a></h2>
\* <p>SUMMARY</p>, the i-th with the i-th paper's url, title and summary
\* unmodified, in list order, between the header and the closing tag.
C5_HtmlRendering ==
    HtmlJustDone =>
        /\ html_file.data = Header(today) \o BlocksFor(papers) \o HTML_END
        /\ Occurrences(html_file.data, "<h2><a href=\"") = Len(papers)

C5_Witness ==
    /\ HtmlJustDone
    /\ Len(papers) = 2
    /\ papers[1].summary = "A good paper."
    /\ papers[2].summary = PLACEHOLDER
    /\ papers[1].title # papers[2].title

\* C6: whatever papers.html held before, from the truncating open on the
\* file is at every step a prefix of the final document: empty, then the
\* header, then the header and the blocks of the papers appended so far;
\* when the sink has finished the file starts with the one header, ends
\* with the one closing tag, and two runs of the sink on the same date
\* leave the same file.
C6_HtmlWriteOrder ==
    /\ pc = "html_write" => html_file.data = ""
    /\ pc = "html_papers" =>
          html_file.data
              = Header(today) \o BlocksFor(SubSeq(papers, 1, idx - 1))
    /\ pc \in {"html_write", "html_papers"} =>
          IsPrefix(html_file.data,
                   Header(today) \o BlocksFor(papers) \o HTML_END)
    /\ HtmlJustDone =>
          /\ IsPrefix(Header(today), html_file.data)
          /\ IsSuffix("</head>  </html>", html_file.data)
          /\ Occurrences(html_file.data, "<html>") = 1
          /\ Occurrences(html_file.data, "</html>") = 1
          /\ Len(html_file.data)
                = Len(Header(today)) + Len(BlocksFor(papers)) + Len(HTML_END)
    /\ \A k \in 1..Len(done), l \in 1..Len(done) :
          done[k].sink = "html" /\ done[l].sink = "html"
              /\ done[k].date = done[l].date
                  => done[k].html = done[l].html

C6_Witness ==
    /\ HtmlJustDone
    /\ Len(done) = 2
    /\ done[1].sink = "html"
    /\ done[1].date = done[2].date
    /\ Len(papers) = 2

\* C7, as claimed: the prompt is the instruction "Summarize this research
\* article into one paragraph without formatting, highlighting strengths and
\* weaknesses." followed by the extracted text.
C7_PromptAsClaimed ==
    pc \in {"generate_content", "assign"} =>
        prompt = "Summarize this research article into one paragraph without formatting, highlighting strengths and weaknesses."
                    \o text

\* C7, amended: the prompt is the instruction "Summarize this research
\* article into one paragraph without formatting highlighting its strengths
\* and weaknesses. " followed by the full text extracted from the file
\* downloaded for that same paper, and the summary stored is the text of the
\* response to that prompt, unchanged.
C7_Prompt ==
    /\ pc \in {"generate_content", "assign"} =>
          /\ prompt = "Summarize this research article into one paragraph without formatting highlighting its strengths and weaknesses. "
                         \o text
          /\ pdf_file.url = papers[idx].url
          /\ pages = pdf_file.pages
          /\ Len(text) = Offset(pages, Len(pages) + 1)
    /\ pc = "for" /\ idx > 1 /\ raised[idx - 1] = "" =>
          /\ response.has_text
          /\ papers[idx - 1].summary = response.text

C7_Witness ==
    /\ pc = "for"
    /\ idx = 2
    /\ raised[1] = ""
    /\ text = "Hello\nWorld\n"
    /\ response = Response("A good paper.")
    /\ papers[1].summary = "A good paper."

\* Paper i has been started and its summary is not set yet.
InProgress(i) == nDownload[i] > 0 /\ ~HasSummary(papers[i])

\* C8: the download of a paper does not start before the summary of every
\* earlier paper is set; the generation call of a paper is made only after
\* its extraction has returned; summaries are set in list order; at most one
\* paper is in progress, and it is the one the loop is at.
C8_Sequential ==
    /\ \A i \in Papers :
          nDownload[i] > 0 => \A j \in 1..(i - 1) : HasSummary(papers[j])
    /\ \A i \in Papers : nGenerate[i] > 0 => nDownload[i] > 0
    /\ pc = "generate_content" =>
          pg > Len(pages) /\ pages = pdf_file.pages /\ nGenerate[idx] = 0
    /\ pc \in {"urlretrieve", "PdfReader", "pages"} => nGenerate[idx] = 0
    /\ \A i \in Papers :
          HasSummary(papers[i]) => \A j \in 1..(i - 1) : HasSummary(papers[j])
    /\ \A i \in Papers, j \in Papers :
          InProgress(i) /\ InProgress(j) => i = j
    /\ \A i \in Papers : InProgress(i) => InLoop /\ i = idx

C8_Witness ==
    /\ pc = "generate_content"
    /\ idx = 2
    /\ HasSummary(papers[1])
    /\ InProgress(2)

\* C9: once discovery is over no step changes the length of the papers list
\* or a paper's title or url; a summary, once set, is not set again; a step
\* of a rendering cell changes no paper; and when the loop is over each
\* paper's summary has been assigned exactly once.
C9_Frame ==
    /\ [](PostLoop =>
            \A i \in Papers : HasSummary(papers[i]) /\ nWrite[i] = 1)
    /\ [][ /\ pc # "discover" =>
                /\ Len(papers') = Len(papers)
                /\ \A i \in Papers :
                      /\ papers'[i].title = papers[i].title
                      /\ papers'[i].url = papers[i].url
                      /\ DOMAIN papers'[i] \subseteq {"title", "url", "summary"}
                      /\ HasSummary(papers[i]) => papers'[i] = papers[i]
           /\ PostLoop => papers' = papers
         ]_vars

C9_Witness ==
    /\ pc = "summarized"
    /\ Len(done) = 2
    /\ done[1].sink # done[2].sink
    /\ Len(papers) = 2
    /\ raised[1] = ""
    /\ raised[2] # ""

\* The markdown string to be displayed for a paper.
MarkdownFor(paper) ==
    "**[" \o paper.title \o "](" \o paper.url \o ")**<br>" \o paper.summary
        \o "<br><br>"

\* C10: a run of the HTML sink, when it ends, has left the document of the
\* papers list and the displayed output as it was; a run of the markdown
\* sink, when it ends, has displayed one "**[title](url)**<br>summary<br><br>"
\* per paper in list order and left papers.html as it was: whichever sinks
\* ran before, in whichever order.
C10_SinksIndependent ==
    pc = "summarized" /\ done # <<>> =>
        LET k == Len(done)
            r == done[k]
        IN  /\ r.html = html_file /\ r.md = displayed
            /\ r.sink = "html" =>
                /\ r.html.data
                      = Header(r.date) \o BlocksFor(papers) \o HTML_END
                /\ r.md = (IF k = 1 THEN <<>> ELSE done[k - 1].md)
            /\ r.sink = "md" =>
                /\ r.md = [i \in Papers |-> MarkdownFor(papers[i])]
                /\ IF k = 1 THEN r.html \in {NoHtml, StaleHtml}
                   ELSE r.html = done[k - 1].html

C10_Witness ==
    /\ pc = "summarized"
    /\ Len(done) = 2
    /\ done[1].sink = "md"
    /\ done[2].sink = "html"
    /\ Len(papers) = 2
    /\ Len(displayed) = 2

\* C11: for every paper urlretrieve is called at most once and
\* generate_content at most once, whether the call returns or raises; a
\* paper whose try block raised is being handled or has been left for the
\* next one, and is never started again; a paper whose download or
\* extraction failed has had no generation call.
C11_NoRetry ==
    \A i \in Papers :
        /\ nDownload[i] <= 1
        /\ nGenerate[i] <= 1
        /\ nGenerate[i] = 1 => nDownload[i] = 1
        /\ raised[i] = "extract_pdf" => nGenerate[i] = 0
        /\ raised[i] # "" =>
              /\ nDownload[i] = 1
              /\ (pc = "except" /\ idx = i) \/ Handled(i)
        /\ Handled(i) => nDownload[i] = 1 /\ nWrite[i] = 1

C11_Witness ==
    /\ pc = "summarized"
    /\ Len(papers) = 2
    /\ raised[1] = "extract_pdf"
    /\ nDownload[1] = 1
    /\ nGenerate[1] = 0
    /\ raised[2] = "generate_content"
    /\ nDownload[2] = 1
    /\ nGenerate[2] = 1

\* C12: the summarization loop, once entered, comes to its end, whatever
\* raises on the way; from then on every paper has a summary, so the paper a
\* rendering cell is about to read has one.
C12_LoopTerminates ==
    /\ (pc = "for") ~> (pc = "summarized")
    /\ [](PostLoop => \A i \in Papers : HasSummary(papers[i]))
    /\ [](pc \in {"html_papers", "md_papers"} /\ idx <= Len(papers)
            => HasSummary(papers[idx]))

C12_Witness ==
    /\ pc = "md_papers"
    /\ idx = 2
    /\ Len(papers) = 2
    /\ raised[1] = "extract_pdf"
    /\ raised[2] = "generate_content"
    /\ done # <<>>

\* The file pdf_file.pdf was written by the download of the paper the loop
\* is at, and that download returned.
OwnDownload ==
    /\ pdf_file.exists
    /\ pdf_file.url = papers[idx].url
    /\ pdf_file # LeftoverPdf
    /\ nDownload[idx] = 1
    /\ raised[idx] = ""

\* C13: pdf_file.pdf is read only right after the download of the paper the
\* loop is at has returned; while that paper's text is extracted and sent,
\* the pages and the text are those of that file; a paper whose download
\* raised goes to the handler with the file unread, and has no generation
\* call.
C13_OwnTextOnly ==
    /\ pc \in {"PdfReader", "pages", "generate_content", "assign"} =>
          OwnDownload
    /\ pc \in {"pages", "generate_content", "assign"} =>
          /\ pdf_file.valid
          /\ pages = pdf_file.pages
    /\ pc \in {"generate_content", "assign"} =>
          /\ Len(text) = Offset(pdf_file.pages, Len(pdf_file.pages) + 1)
          /\ IsSuffix(text, prompt)
    /\ pc = "except" /\ raised[idx] = "extract_pdf" =>
          /\ prompt = ""
          /\ nGenerate[idx] = 0
    /\ \A i \in Papers : nGenerate[i] = 1 => raised[i] # "extract_pdf"

C13_Witness ==
    /\ pc = "except"
    /\ idx = 2
    /\ raised[2] = "extract_pdf"
    /\ nGenerate[1] = 1
    /\ pdf_file.valid
    /\ pdf_file.url = papers[1].url
    /\ papers[1].url # papers[2].url
    /\ pages = <<>>

====
